---- MODULE Spec2Model ----
(***************************************************************************)
(* Model of langchecker_ai: the detect-then-check pipeline of main.py, the *)
(* Telegram message handler of telegram_bot.py and its markdown-to-HTML    *)
(* converter.  Texts are sequences of one-character strings.               *)
(***************************************************************************)
EXTENDS Integers, Sequences, FiniteSets, TLC

(***************************************************************************)
(* Bounds of the model.                                                    *)
(***************************************************************************)
\* number of chat messages handled concurrently
NumRequests == 2
\* length of the message list of a service response
MaxMessages == 2
\* number of tokens of a converter input
MaxTokens == 5

(***************************************************************************)
(* Texts and characters.                                                   *)
(***************************************************************************)
NL == "\n"
\* the backtick character (a backtick cannot be written in a TLA+ string)
BT == "BT"
DQ == "\""
SQ == "'"

\* Python's \w on the characters the model uses: letters, digits, underscore.
WordChars ==
  {"a", "b", "c", "d", "e", "f", "g", "h", "i", "l", "m", "o", "p", "q", "r",
   "s", "t", "u", "x", "y", "U", "0", "2", "7", "_"}

IsWord(c) == c \in WordChars

\* True when pattern d occurs in s at position i.
MatchAt(s, i, d) ==
  /\ i >= 1
  /\ i + Len(d) - 1 <= Len(s)
  /\ \A k \in 1..Len(d) : s[i + k - 1] = d[k]

\* str.replace(c, rep) for a one-character c.
RECURSIVE ReplaceChar(_, _, _)
ReplaceChar(s, c, rep) ==
  IF s = << >> THEN << >>
  ELSE (IF Head(s) = c THEN rep ELSE <<Head(s)>>) \o ReplaceChar(Tail(s), c, rep)

EntAmp == <<"&", "a", "m", "p", ";">>
EntLt == <<"&", "l", "t", ";">>
EntGt == <<"&", "g", "t", ";">>
EntQuot == <<"&", "q", "u", "o", "t", ";">>
EntApos == <<"&", "#", "x", "2", "7", ";">>

\* html.escape with a fault: "&" is replaced last, so the entities of the
\* other characters are escaped again.
html_escape_amp_last(s) ==
  ReplaceChar(ReplaceChar(ReplaceChar(ReplaceChar(ReplaceChar(
    s, "<", EntLt), ">", EntGt), DQ, EntQuot), SQ, EntApos), "&", EntAmp)

\* html.escape(s) with its default quote=True: "&" first, then "<", ">",
\* and the two quote characters.
html_escape(s) ==
  ReplaceChar(ReplaceChar(ReplaceChar(ReplaceChar(ReplaceChar(
    s, "&", EntAmp), "<", EntLt), ">", EntGt), DQ, EntQuot), SQ, EntApos)

PreOpen == <<"<", "p", "r", "e", ">">>
PreClose == <<"<", "/", "p", "r", "e", ">">>
CodeOpen == <<"<", "c", "o", "d", "e", ">">>
CodeClose == <<"<", "/", "c", "o", "d", "e", ">">>
BOpen == <<"<", "b", ">">>
BClose == <<"<", "/", "b", ">">>
IOpen == <<"<", "i", ">">>
IClose == <<"<", "/", "i", ">">>
SOpen == <<"<", "s", ">">>
SClose == <<"<", "/", "s", ">">>
AOpen == <<"<", "a", " ", "h", "r", "e", "f", "=", DQ>>
AMid == <<DQ, ">">>
AClose == <<"<", "/", "a", ">">>

Fence == <<BT, BT, BT>>

\* First position >= i whose character is not a word character (Len(s)+1 if none).
RECURSIVE SkipWord(_, _)
SkipWord(s, i) ==
  IF i <= Len(s) /\ IsWord(s[i]) THEN SkipWord(s, i + 1) ELSE i

\* First position >= i where d occurs in s, 0 if none.
RECURSIVE FindFrom(_, _, _)
FindFrom(s, i, d) ==
  IF i + Len(d) - 1 > Len(s) THEN 0
  ELSE IF MatchAt(s, i, d) THEN i
  ELSE FindFrom(s, i + 1, d)

\* First position >= i whose character is c (Len(s)+1 if none).
RECURSIVE SkipTo(_, _, _)
SkipTo(s, i, c) ==
  IF i <= Len(s) /\ s[i] # c THEN SkipTo(s, i + 1, c) ELSE i

\* re.sub of  BT BT BT (?:\w*) \n (.*?) BT BT BT  by  <pre>\1</pre>  (DOTALL),
\* scanning from position i.
RECURSIVE FencedSub(_, _)
FencedSub(s, i) ==
  IF i > Len(s) THEN << >>
  ELSE
    LET j == SkipWord(s, i + 3)
        k == IF MatchAt(s, i, Fence) /\ j <= Len(s) /\ s[j] = NL
             THEN FindFrom(s, j + 1, Fence)
             ELSE 0
    IN IF k # 0
       THEN PreOpen \o SubSeq(s, j + 1, k - 1) \o PreClose \o FencedSub(s, k + 3)
       ELSE <<s[i]>> \o FencedSub(s, i + 1)

\* re.sub of  BT ([^BT]+) BT  by  <code>\1</code>, scanning from position i.
RECURSIVE InlineCodeSub(_, _)
InlineCodeSub(s, i) ==
  IF i > Len(s) THEN << >>
  ELSE
    LET e == SkipTo(s, i + 1, BT)
    IN IF s[i] = BT /\ e > i + 1 /\ e <= Len(s)
       THEN CodeOpen \o SubSeq(s, i + 1, e - 1) \o CodeClose \o InlineCodeSub(s, e + 1)
       ELSE <<s[i]>> \o InlineCodeSub(s, i + 1)

\* The closing delimiter of a lazy group (.+?) that opened before position
\* p - 1: the first p such that the group s[..p-1] holds no newline, d
\* occurs at p and, when wb, no word character follows it.  0 if none.
RECURSIVE LazyEnd(_, _, _, _)
LazyEnd(s, p, d, wb) ==
  IF p + Len(d) - 1 > Len(s) \/ s[p - 1] = NL THEN 0
  ELSE IF /\ MatchAt(s, p, d)
          /\ (wb => (p + Len(d) > Len(s) \/ ~IsWord(s[p + Len(d)])))
       THEN p
  ELSE LazyEnd(s, p + 1, d, wb)

\* re.sub of  d(.+?)d  by  open \1 close, scanning from position i; with wb
\* the pattern is  (?<!\w)d(.+?)d(?!\w).
RECURSIVE LazySub(_, _, _, _, _, _)
LazySub(s, i, d, open, close, wb) ==
  IF i > Len(s) THEN << >>
  ELSE
    LET p == IF /\ MatchAt(s, i, d)
                /\ (wb => (i = 1 \/ ~IsWord(s[i - 1])))
                /\ i + Len(d) <= Len(s)
             THEN LazyEnd(s, i + Len(d) + 1, d, wb)
             ELSE 0
    IN IF p # 0
       THEN open \o SubSeq(s, i + Len(d), p - 1) \o close
              \o LazySub(s, p + Len(d), d, open, close, wb)
       ELSE <<s[i]>> \o LazySub(s, i + 1, d, open, close, wb)

\* re.sub(r"\[([^\]]+)\]\(([^)]+)\)", r'<a href="\2">\1</a>', text),
\* scanning from position i.
RECURSIVE LinkSub(_, _)
LinkSub(s, i) ==
  IF i > Len(s) THEN << >>
  ELSE
    LET e1 == SkipTo(s, i + 1, "]")
        e2 == SkipTo(s, e1 + 2, ")")
    IN IF /\ s[i] = "["
          /\ e1 > i + 1 /\ e1 < Len(s)
          /\ s[e1 + 1] = "("
          /\ e2 > e1 + 2 /\ e2 <= Len(s)
       THEN AOpen \o SubSeq(s, e1 + 2, e2 - 1) \o AMid \o SubSeq(s, i + 1, e1 - 1)
              \o AClose \o LinkSub(s, e2 + 1)
       ELSE <<s[i]>> \o LinkSub(s, i + 1)

\* The regex passes of markdown_to_telegram_html, in the source's order.
MarkdownPasses(t) ==
  LET t1 == FencedSub(t, 1)
      t2 == InlineCodeSub(t1, 1)
      t3 == LazySub(t2, 1, <<"*", "*">>, BOpen, BClose, FALSE)
      t4 == LazySub(t3, 1, <<"_", "_">>, BOpen, BClose, FALSE)
      t5 == LazySub(t4, 1, <<"*">>, IOpen, IClose, FALSE)
      t6 == LazySub(t5, 1, <<"_">>, IOpen, IClose, TRUE)
      t7 == LazySub(t6, 1, <<"~", "~">>, SOpen, SClose, FALSE)
  IN LinkSub(t7, 1)

\* markdown_to_telegram_html with a fault: line 38 is missing.
markdown_to_telegram_html_unescaped(text) == MarkdownPasses(text)

\* markdown_to_telegram_html, lines 38-62.

markdown_to_telegram_html(text) == MarkdownPasses(html_escape(text))

(***************************************************************************)
(* Values of the pipeline.  An optional value (Python's None or a value)   *)
(* is a tagged record.                                                     *)
(***************************************************************************)
NoLang == [tag |-> "none", val |-> ""]
SomeLang(l) == [tag |-> "some", val |-> l]
Languages == {"English", "French"}
LangOpt == {NoLang} \cup {SomeLang(l) : l \in Languages}

NoText == [tag |-> "none", val |-> << >>]
SomeText(t) == [tag |-> "some", val |-> t]

\* "Unable to process the text."
Fallback ==
  <<"U", "n", "a", "b", "l", "e", " ", "t", "o", " ", "p", "r", "o", "c", "e",
    "s", "s", " ", "t", "h", "e", " ", "t", "e", "x", "t", ".">>

\* "Sorry, an error occurred while processing your text. Please try again later."
\* (the text is fixed; the model keeps it as one atom)
Apology == <<"Sorry, an error occurred while processing your text. Please try again later.">>

\* A message content the service may answer with: a report with markdown
\* and an HTML-significant character.
BoldReport == <<"*", "*", "a", "<", "b", "*", "*">>
Contents == {BoldReport}
ContentOpt == {NoText} \cup {SomeText(c) : c \in Contents}
Messages == {[content |-> c] : c \in ContentOpt}

\* RunOutput values: messages is absent (None) or a list of messages.
NoMessages == [tag |-> "none", val |-> << >>]
SomeMessages(ms) == [tag |-> "some", val |-> ms]
MessageLists == UNION {[1..n -> Messages] : n \in 0..MaxMessages}
RunOutputs ==
  {[messages |-> NoMessages]} \cup {[messages |-> SomeMessages(ms)] : ms \in MessageLists}
NoOutput == [messages |-> [tag |-> "unset", val |-> << >>]]

\* Failures the external service call can raise.
Failures == {"network", "quota"}

Requests == 1..NumRequests
SessionIds == 1..NumRequests

FreeSession == [live |-> FALSE, owner |-> 0, kind |-> "", seed |-> NoLang, language |-> NoLang]

VARIABLES
  pc,          \* position of each request's handle_message call
  heap,        \* the Agent session objects: session id -> session
  agent,       \* the local variable agent of the running stage (a session id, 0 if none)
  language,    \* the local variable language of process_text
  runOutput,   \* the local variable response of check_text (the RunOutput)
  response,    \* the local variable response of handle_message
  formatted,   \* the local variable formatted of handle_message
  attempts,    \* the reply_text calls made so far, in order
  raised,      \* the stage whose service call raised, "none" if none did
  err,         \* the failure the external service raised, while it is being handled
  caught,      \* the exception e of the outer except clause of handle_message
  logged,      \* whether handle_message logged an error (line 110)
  errLogged,   \* whether error_handler logged the update (line 118)
  calls,       \* external service calls issued and completed, per stage
  convIn,      \* converter run: the input text
  convEsc,     \* converter run: the text after the escaping step (line 38)
  convOut,     \* converter run: the returned text
  convDone     \* converter run: whether markdown_to_telegram_html has run

pipeVars ==
  <<pc, heap, agent, language, runOutput, response, formatted, attempts, raised,
    err, caught, logged, errLogged, calls>>
convVars == <<convIn, convEsc, convOut, convDone>>
vars == <<pipeVars, convVars>>

NoCalls == [detStarted |-> 0, detDone |-> 0, chkStarted |-> 0, chkDone |-> 0]

PipeInit ==
  /\ pc = [r \in Requests |-> "start"]
  /\ heap = [i \in SessionIds |-> FreeSession]
  /\ agent = [r \in Requests |-> 0]
  /\ language = [r \in Requests |-> NoLang]
  /\ runOutput = [r \in Requests |-> NoOutput]
  /\ response = [r \in Requests |-> NoText]
  /\ formatted = [r \in Requests |-> NoText]
  /\ attempts = [r \in Requests |-> << >>]
  /\ raised = [r \in Requests |-> "none"]
  /\ err = [r \in Requests |-> ""]
  /\ caught = [r \in Requests |-> ""]
  /\ logged = [r \in Requests |-> FALSE]
  /\ errLogged = [r \in Requests |-> FALSE]
  /\ calls = [r \in Requests |-> NoCalls]

ConvIdle ==
  /\ convIn = << >>
  /\ convEsc = << >>
  /\ convOut = << >>
  /\ convDone = FALSE

Init == PipeInit /\ ConvIdle

(***************************************************************************)
(* main.py                                                                 *)
(***************************************************************************)
\* Agent(...) with a fault: one session object shared by all the calls.
NewAgentShared(h) == 1

\* Agent(...) constructs a new session object: an id no live session has.

NewAgent(h) ==
  CHOOSE i \in SessionIds :
    /\ ~h[i].live
    /\ \A j \in SessionIds : j < i => h[j].live

\* ExtractContent with a fault: the first message instead of the last.
ExtractContentFirst(out) ==
  IF out.messages.tag = "some" /\ Len(out.messages.val) > 0
  THEN out.messages.val[1].content
  ELSE SomeText(Fallback)

\* check_text, lines 43-45: the content of the last message, or the fallback.
ExtractContent(out) ==
  IF out.messages.tag = "some" /\ Len(out.messages.val) > 0
  THEN out.messages.val[Len(out.messages.val)].content
  ELSE SomeText(Fallback)

\* handle_message, lines 90-95: log, then the typing indicator, which is
\* outside the try statement.
handle_message_start(r) ==
  /\ pc[r] = "start"
  /\ \E ok \in BOOLEAN :
       pc' = [pc EXCEPT ![r] = IF ok THEN "detect" ELSE "propagated"]
  /\ UNCHANGED <<heap, agent, language, runOutput, response, formatted, attempts,
                 raised, err, caught, logged, errLogged, calls>>
  /\ UNCHANGED convVars

\* process_text line 53, get_language lines 12-20: a new session whose slot
\* is None, and the call to the service.
get_language_call(r) ==
  /\ pc[r] = "detect"
  /\ LET sid == NewAgent(heap)
     IN /\ heap' = [heap EXCEPT ![sid] =
                      [live |-> TRUE, owner |-> r, kind |-> "language-identifier",
                       seed |-> NoLang, language |-> NoLang]]
        /\ agent' = [agent EXCEPT ![r] = sid]
  /\ calls' = [calls EXCEPT ![r].detStarted = @ + 1]
  /\ pc' = [pc EXCEPT ![r] = "det_wait"]
  /\ UNCHANGED <<language, runOutput, response, formatted, attempts, raised, err,
                 caught, logged, errLogged>>
  /\ UNCHANGED convVars

\* agent.run returns: the service wrote a language into the slot or left it
\* None; get_language line 21 returns the slot, process_text line 53 keeps it.
get_language_return(r) ==
  /\ pc[r] = "det_wait"
  /\ \E l \in LangOpt :
       LET written == [heap EXCEPT ![agent[r]].language = l]
       IN /\ language' = [language EXCEPT ![r] = written[agent[r]].language]
          /\ heap' = [written EXCEPT ![agent[r]] = FreeSession]
  /\ agent' = [agent EXCEPT ![r] = 0]
  /\ calls' = [calls EXCEPT ![r].detDone = @ + 1]
  /\ pc' = [pc EXCEPT ![r] = "check"]
  /\ UNCHANGED <<runOutput, response, formatted, attempts, raised, err, caught,
                 logged, errLogged>>
  /\ UNCHANGED convVars

\* get_language_raise with a fault: get_language swallows the failure and
\* returns None.
get_language_raise_swallowed(r) ==
  /\ pc[r] = "det_wait"
  /\ \E e \in Failures : err' = [err EXCEPT ![r] = e]
  /\ heap' = [heap EXCEPT ![agent[r]] = FreeSession]
  /\ agent' = [agent EXCEPT ![r] = 0]
  /\ language' = [language EXCEPT ![r] = NoLang]
  /\ raised' = [raised EXCEPT ![r] = "detector"]
  /\ pc' = [pc EXCEPT ![r] = "check"]
  /\ UNCHANGED <<runOutput, response, formatted, attempts, caught, logged,
                 errLogged, calls>>
  /\ UNCHANGED convVars

\* agent.run raises in get_language: nothing in main.py catches it, so it
\* leaves get_language and process_text and reaches line 109.
get_language_raise(r) ==
  /\ pc[r] = "det_wait"
  /\ \E e \in Failures :
       /\ err' = [err EXCEPT ![r] = e]
       /\ caught' = [caught EXCEPT ![r] = e]
  /\ heap' = [heap EXCEPT ![agent[r]] = FreeSession]
  /\ agent' = [agent EXCEPT ![r] = 0]
  /\ raised' = [raised EXCEPT ![r] = "detector"]
  /\ pc' = [pc EXCEPT ![r] = "except"]
  /\ UNCHANGED <<language, runOutput, response, formatted, attempts, logged,
                 errLogged, calls>>
  /\ UNCHANGED convVars

\* check_text_call with a fault: the session is not seeded with language.
check_text_call_unseeded(r) ==
  /\ pc[r] = "check"
  /\ LET sid == NewAgent(heap)
     IN /\ heap' = [heap EXCEPT ![sid] =
                      [live |-> TRUE, owner |-> r, kind |-> "text-checker",
                       seed |-> NoLang, language |-> NoLang]]
        /\ agent' = [agent EXCEPT ![r] = sid]
  /\ calls' = [calls EXCEPT ![r].chkStarted = @ + 1]
  /\ pc' = [pc EXCEPT ![r] = "chk_wait"]
  /\ UNCHANGED <<language, runOutput, response, formatted, attempts, raised, err,
                 caught, logged, errLogged>>
  /\ UNCHANGED convVars

\* process_text line 54, check_text lines 25-40: a new session seeded with
\* language, and the call to the service.
check_text_call(r) ==
  /\ pc[r] = "check"
  /\ LET sid == NewAgent(heap)
     IN /\ heap' = [heap EXCEPT ![sid] =
                      [live |-> TRUE, owner |-> r, kind |-> "text-checker",
                       seed |-> language[r], language |-> language[r]]]
        /\ agent' = [agent EXCEPT ![r] = sid]
  /\ calls' = [calls EXCEPT ![r].chkStarted = @ + 1]
  /\ pc' = [pc EXCEPT ![r] = "chk_wait"]
  /\ UNCHANGED <<language, runOutput, response, formatted, attempts, raised, err,
                 caught, logged, errLogged>>
  /\ UNCHANGED convVars

\* agent.run returns a RunOutput in check_text (line 40); neither the
\* session nor language is used after this line.
check_text_run_return(r) ==
  /\ pc[r] = "chk_wait"
  /\ \E out \in RunOutputs : runOutput' = [runOutput EXCEPT ![r] = out]
  /\ heap' = [heap EXCEPT ![agent[r]] = FreeSession]
  /\ agent' = [agent EXCEPT ![r] = 0]
  /\ language' = [language EXCEPT ![r] = NoLang]
  /\ calls' = [calls EXCEPT ![r].chkDone = @ + 1]
  /\ pc' = [pc EXCEPT ![r] = "extract"]
  /\ UNCHANGED <<response, formatted, attempts, raised, err, caught, logged,
                 errLogged>>
  /\ UNCHANGED convVars

\* agent.run raises in check_text: it reaches line 109 like a detector failure.
check_text_raise(r) ==
  /\ pc[r] = "chk_wait"
  /\ \E e \in Failures :
       /\ err' = [err EXCEPT ![r] = e]
       /\ caught' = [caught EXCEPT ![r] = e]
  /\ heap' = [heap EXCEPT ![agent[r]] = FreeSession]
  /\ agent' = [agent EXCEPT ![r] = 0]
  /\ language' = [language EXCEPT ![r] = NoLang]
  /\ raised' = [raised EXCEPT ![r] = "checker"]
  /\ pc' = [pc EXCEPT ![r] = "except"]
  /\ UNCHANGED <<runOutput, response, formatted, attempts, logged, errLogged, calls>>
  /\ UNCHANGED convVars

\* check_text lines 43-45 return, process_text line 54 returns, and
\* handle_message line 99 keeps the value.
check_text_return(r) ==
  /\ pc[r] = "extract"
  /\ response' = [response EXCEPT ![r] = ExtractContent(runOutput[r])]
  /\ runOutput' = [runOutput EXCEPT ![r] = NoOutput]
  /\ pc' = [pc EXCEPT ![r] = "convert"]
  /\ UNCHANGED <<heap, agent, language, formatted, attempts, raised, err, caught,
                 logged, errLogged, calls>>
  /\ UNCHANGED convVars

(***************************************************************************)
(* telegram_bot.py: handle_message                                         *)
(***************************************************************************)
\* AfterReply with a fault: the apology is sent after every reply, as if it
\* were in a finally clause.
AfterReplyFinally(kind, ok) ==
  CASE kind = "formatted" -> IF ok THEN "except" ELSE "send_raw"
    [] kind = "raw" -> IF ok THEN "except" ELSE "except"
    [] kind = "apology" -> IF ok THEN "done" ELSE "propagated"

\* AfterReply with a fault: no inner try statement, so a failure of the
\* formatted reply goes to the outer except clause.
AfterReplyNoFallback(kind, ok) ==
  CASE kind = "formatted" -> IF ok THEN "done" ELSE "except"
    [] kind = "raw" -> IF ok THEN "done" ELSE "except"
    [] kind = "apology" -> IF ok THEN "done" ELSE "propagated"

\* Where handle_message goes after a reply_text call that returned (ok) or
\* raised: the nested try statements of lines 97-113.
AfterReply(kind, ok) ==
  CASE kind = "formatted" -> IF ok THEN "done" ELSE "send_raw"
    [] kind = "raw" -> IF ok THEN "done" ELSE "except"
    [] kind = "apology" -> IF ok THEN "done" ELSE "propagated"

Reply(kind, text, mode, ok) == [kind |-> kind, text |-> text, mode |-> mode, ok |-> ok]

\* Line 103: html.escape raises on None (it calls None.replace), which the
\* inner except clause catches; on a string the converter returns.
handle_message_format(r) ==
  /\ pc[r] = "convert"
  /\ IF response[r].tag = "some"
     THEN /\ formatted' = [formatted EXCEPT ![r] =
                             SomeText(markdown_to_telegram_html(response[r].val))]
          /\ pc' = [pc EXCEPT ![r] = "send_fmt"]
     ELSE /\ formatted' = formatted
          /\ pc' = [pc EXCEPT ![r] = "send_raw"]
  /\ UNCHANGED <<heap, agent, language, runOutput, response, attempts, raised, err,
                 caught, logged, errLogged, calls>>
  /\ UNCHANGED convVars

\* Line 104: reply_text(formatted, parse_mode=ParseMode.HTML) returns or raises.
handle_message_reply_formatted(r) ==
  /\ pc[r] = "send_fmt"
  /\ \E ok \in BOOLEAN :
       /\ attempts' = [attempts EXCEPT ![r] =
                         Append(@, Reply("formatted", formatted[r], "HTML", ok))]
       /\ pc' = [pc EXCEPT ![r] = AfterReply("formatted", ok)]
  /\ UNCHANGED <<heap, agent, language, runOutput, response, formatted, raised, err,
                 caught, logged, errLogged, calls>>
  /\ UNCHANGED convVars

\* Lines 105-108: reply_text(response) returns or raises; a message without
\* text is refused, so with response None the call raises.
handle_message_reply_raw(r) ==
  /\ pc[r] = "send_raw"
  /\ \E ok \in (IF response[r].tag = "some" THEN BOOLEAN ELSE {FALSE}) :
       /\ attempts' = [attempts EXCEPT ![r] =
                         Append(@, Reply("raw", response[r], "none", ok))]
       /\ caught' = [caught EXCEPT ![r] = IF ok THEN @ ELSE "reply"]
       /\ pc' = [pc EXCEPT ![r] = AfterReply("raw", ok)]
  /\ UNCHANGED <<heap, agent, language, runOutput, response, formatted, raised, err,
                 logged, errLogged, calls>>
  /\ UNCHANGED convVars

\* handle_message_reply_apology with a fault: the error is not logged.
handle_message_reply_apology_unlogged(r) ==
  /\ pc[r] = "except"
  /\ \E ok \in BOOLEAN :
       /\ attempts' = [attempts EXCEPT ![r] =
                         Append(@, Reply("apology", SomeText(Apology), "none", ok))]
       /\ pc' = [pc EXCEPT ![r] = AfterReply("apology", ok)]
  /\ err' = [err EXCEPT ![r] = ""]
  /\ caught' = [caught EXCEPT ![r] = ""]
  /\ UNCHANGED <<heap, agent, language, runOutput, response, formatted, raised,
                 logged, errLogged, calls>>
  /\ UNCHANGED convVars

\* Lines 109-113: log the error, then reply_text(apology) returns or raises;
\* nothing in handle_message catches an exception of this call.  The name e
\* of the except clause is unbound when the clause is left.
handle_message_reply_apology(r) ==
  /\ pc[r] = "except"
  /\ logged' = [logged EXCEPT ![r] = TRUE]
  /\ \E ok \in BOOLEAN :
       /\ attempts' = [attempts EXCEPT ![r] =
                         Append(@, Reply("apology", SomeText(Apology), "none", ok))]
       /\ pc' = [pc EXCEPT ![r] = AfterReply("apology", ok)]
  /\ err' = [err EXCEPT ![r] = ""]
  /\ caught' = [caught EXCEPT ![r] = ""]
  /\ UNCHANGED <<heap, agent, language, runOutput, response, formatted, raised,
                 errLogged, calls>>
  /\ UNCHANGED convVars

\* error_handler (registered at line 134): logs an exception that left a handler.
error_handler(r) ==
  /\ pc[r] = "propagated"
  /\ errLogged' = [errLogged EXCEPT ![r] = TRUE]
  /\ pc' = [pc EXCEPT ![r] = "error_logged"]
  /\ UNCHANGED <<heap, agent, language, runOutput, response, formatted, attempts,
                 raised, err, caught, logged, calls>>
  /\ UNCHANGED convVars

Next ==
  \E r \in Requests :
    \/ handle_message_start(r)
    \/ get_language_call(r)
    \/ get_language_return(r)
    \/ get_language_raise(r)
    \/ check_text_call(r)
    \/ check_text_run_return(r)
    \/ check_text_raise(r)
    \/ check_text_return(r)
    \/ handle_message_format(r)
    \/ handle_message_reply_formatted(r)
    \/ handle_message_reply_raw(r)
    \/ handle_message_reply_apology(r)
    \/ error_handler(r)

Spec == Init /\ [][Next]_vars

(***************************************************************************)
(* The converter on its own: markdown_to_telegram_html applied to every    *)
(* text made of at most MaxTokens tokens of one token family.              *)
(***************************************************************************)
TokenFamilies ==
  { {<<"<">>, <<"&">>, <<"*">>, <<"*", "*">>, <<"a">>},
    {<<">">>, <<"_">>, <<"_", "_">>, <<"~", "~">>, <<"a">>},
    {<<SQ>>, <<BT>>, Fence, <<NL>>, <<"a">>},
    {<<"[">>, <<"]", "(">>, <<")">>, <<DQ>>, <<"<">>} }

RECURSIVE Flatten(_)
Flatten(ts) == IF ts = << >> THEN << >> ELSE Head(ts) \o Flatten(Tail(ts))

InitConv ==
  /\ PipeInit
  /\ \E fam \in TokenFamilies, n \in 0..MaxTokens :
       \E ts \in [1..n -> fam] : convIn = Flatten(ts)
  /\ convEsc = << >>
  /\ convOut = << >>
  /\ convDone = FALSE

\* One call of markdown_to_telegram_html(convIn): line 38, then lines 41-62.
RunConverter ==
  /\ ~convDone
  /\ convEsc' = html_escape(convIn)
  /\ convOut' = markdown_to_telegram_html(convIn)
  /\ convDone' = TRUE
  /\ UNCHANGED convIn
  /\ UNCHANGED pipeVars

NextConv == RunConverter

SpecConv == InitConv /\ [][NextConv]_vars

(***************************************************************************)
(* Properties of the pipeline and the handler (specification Spec).        *)
(***************************************************************************)
\* The handler has ended: it returned, or an exception left it.
Final == {"done", "propagated", "error_logged"}

\* process_text has returned a value to handle_message (line 99).
Returned(r) == calls[r].chkDone = 1 /\ pc[r] # "extract"

IsOk(a) == a.ok

\* The replies delivered to the user: the reply_text calls that returned.
Delivered(r) == SelectSeq(attempts[r], IsOk)

ApologyReply(ok) == Reply("apology", SomeText(Apology), "none", ok)

\* C1: whatever the service's response looks like, the value process_text
\* returns is a string, never None.
C1_ReturnsString ==
  \A r \in Requests : Returned(r) => response[r].tag = "some"

\* C2 as stated: whenever process_text raises, the handler replies with the
\* apology, logs the error and returns normally.
C2_AlwaysApologizes ==
  \A r \in Requests :
    (raised[r] # "none" /\ pc[r] \in Final) =>
      /\ pc[r] = "done"
      /\ logged[r]
      /\ Delivered(r) = <<ApologyReply(TRUE)>>

\* C2 amended: whenever process_text raises, the handler enters the outer
\* except clause, logs the error and makes exactly one reply attempt, the
\* apology; it returns normally exactly when that attempt succeeds, and when
\* the attempt raises the exception leaves handle_message with no reply.
C2_ApologyAttempted ==
  \A r \in Requests :
    /\ raised[r] # "none" => pc[r] \in {"except"} \cup Final
    /\ (raised[r] # "none" /\ pc[r] = "except") => attempts[r] = << >>
    /\ (raised[r] # "none" /\ pc[r] \in Final) =>
         /\ logged[r]
         /\ \/ pc[r] = "done" /\ attempts[r] = <<ApologyReply(TRUE)>>
            \/ pc[r] # "done" /\ attempts[r] = <<ApologyReply(FALSE)>>

C2_Witness ==
  \E r \in Requests :
    /\ raised[r] = "checker"
    /\ pc[r] = "done"
    /\ logged[r]
    /\ attempts[r] = <<ApologyReply(TRUE)>>

\* markdown_to_telegram_html("**a<b**") = "<b>a&lt;b</b>"
BoldReportHtml == <<"<", "b", ">", "a", "&", "l", "t", ";", "b", "<", "/", "b", ">">>

\* The converted text of each report of the model (the fallback string holds
\* no markdown and no HTML-significant character).
ExpectedHtml(t) == IF t = BoldReport THEN BoldReportHtml ELSE t

\* Formatting and sending the formatted message both succeeded.
FormattedSent(r) ==
  /\ Len(attempts[r]) >= 1
  /\ attempts[r][1].kind = "formatted"
  /\ attempts[r][1].ok

\* C3 as stated: when process_text returned a report (a string) and
\* converting or sending the formatted message failed, the reply is the raw
\* report as plain text; when both succeeded, the reply is the converted
\* message in HTML parse mode.
C3_RawOnFormatFailure ==
  \A r \in Requests :
    (Returned(r) /\ response[r].tag = "some" /\ pc[r] \in Final) =>
      IF FormattedSent(r)
      THEN Delivered(r) =
             <<Reply("formatted", SomeText(ExpectedHtml(response[r].val)), "HTML", TRUE)>>
      ELSE Delivered(r) = <<Reply("raw", response[r], "none", TRUE)>>

\* C3 amended: when process_text returned and converting or sending the
\* formatted message failed, the handler attempts the raw report as plain
\* text; if that attempt succeeds it is the only reply, and if it raises
\* (as it does when the report is None) the handler logs the error and
\* attempts the apology.  When formatting and sending succeeded, the only
\* attempt is the converted message in HTML parse mode.
C3_RawAttemptedOnFormatFailure ==
  \A r \in Requests :
    (Returned(r) /\ pc[r] \in Final) =>
      IF FormattedSent(r)
      THEN /\ response[r].tag = "some"
           /\ attempts[r] =
                <<Reply("formatted", SomeText(ExpectedHtml(response[r].val)), "HTML", TRUE)>>
           /\ pc[r] = "done"
      ELSE LET k == IF response[r].tag = "some" THEN 2 ELSE 1
           IN /\ Len(attempts[r]) >= k
              /\ k = 2 => attempts[r][1] =
                   Reply("formatted", SomeText(ExpectedHtml(response[r].val)), "HTML", FALSE)
              /\ attempts[r][k].kind = "raw"
              /\ attempts[r][k].text = response[r]
              /\ attempts[r][k].mode = "none"
              /\ response[r].tag = "none" => ~attempts[r][k].ok
              /\ IF attempts[r][k].ok
                 THEN Len(attempts[r]) = k /\ pc[r] = "done"
                 ELSE /\ Len(attempts[r]) = k + 1
                      /\ attempts[r][k + 1].kind = "apology"
                      /\ logged[r]

C3_Witness ==
  \E r \in Requests :
    /\ Returned(r)
    /\ pc[r] = "done"
    /\ response[r] = SomeText(BoldReport)
    /\ attempts[r] =
         <<Reply("formatted", SomeText(BoldReportHtml), "HTML", FALSE),
           Reply("raw", SomeText(BoldReport), "none", TRUE)>>

AllCalls == [detStarted |-> 1, detDone |-> 1, chkStarted |-> 1, chkDone |-> 1]

\* C4: in one request, one detector call completes before the one checker
\* call starts, the checker's session is seeded with the value the detector
\* returned, and on the success path each call was made exactly once.
C4_DetectThenCheck ==
  \A r \in Requests :
    /\ calls[r].detStarted <= 1
    /\ calls[r].chkStarted <= 1
    /\ calls[r].detDone <= calls[r].detStarted
    /\ calls[r].chkDone <= calls[r].chkStarted
    /\ calls[r].chkStarted = 1 => calls[r].detDone = 1
    /\ pc[r] = "chk_wait" =>
         /\ agent[r] # 0
         /\ heap[agent[r]].kind = "text-checker"
         /\ heap[agent[r]].seed = language[r]
    /\ Returned(r) => calls[r] = AllCalls

C4_Witness ==
  \E r \in Requests :
    /\ pc[r] = "chk_wait"
    /\ language[r] = NoLang
    /\ heap[agent[r]].seed = NoLang
    /\ calls[r].detDone = 1

\* C5: a failure of the detector's service call reaches handle_message's
\* except clause as the same failure, with one detector call and no checker
\* call made; a failure of the checker's call reaches it the same way, with
\* no string returned in its place.
C5_FailurePropagates ==
  \A r \in Requests :
    /\ raised[r] = "detector" =>
         /\ calls[r] = [detStarted |-> 1, detDone |-> 0, chkStarted |-> 0, chkDone |-> 0]
         /\ response[r] = NoText
         /\ pc[r] \in {"except"} \cup Final
    /\ raised[r] = "checker" =>
         /\ calls[r] = [detStarted |-> 1, detDone |-> 1, chkStarted |-> 1, chkDone |-> 0]
         /\ response[r] = NoText
         /\ pc[r] \in {"except"} \cup Final
    /\ (raised[r] # "none" /\ pc[r] = "except") =>
         /\ err[r] \in Failures
         /\ caught[r] = err[r]

C5_Witness ==
  \E r \in Requests :
    /\ raised[r] = "detector"
    /\ pc[r] = "except"
    /\ caught[r] = "quota"

\* C6: in every interleaving of the requests, each live session belongs to
\* one call of one request, and the language the checker's session holds is
\* the one that request's detector produced.
C6_SessionsIsolated ==
  /\ \A r1, r2 \in Requests :
       (r1 # r2 /\ agent[r1] # 0) => agent[r1] # agent[r2]
  /\ \A r \in Requests :
       /\ pc[r] \in {"det_wait", "chk_wait"} <=> agent[r] # 0
       /\ agent[r] # 0 =>
            /\ heap[agent[r]].live
            /\ heap[agent[r]].owner = r
            /\ pc[r] = "det_wait" =>
                 /\ heap[agent[r]].kind = "language-identifier"
                 /\ heap[agent[r]].language = NoLang
            /\ pc[r] = "chk_wait" =>
                 /\ heap[agent[r]].kind = "text-checker"
                 /\ heap[agent[r]].seed = language[r]
  /\ \A i \in SessionIds : heap[i].live => agent[heap[i].owner] = i

C6_Witness ==
  \E r1, r2 \in Requests :
    /\ r1 # r2
    /\ pc[r1] = "chk_wait"
    /\ pc[r2] = "chk_wait"
    /\ heap[agent[r1]].seed = SomeLang("English")
    /\ heap[agent[r2]].seed = SomeLang("French")

\* C7: check_text returns the fallback string, and raises nothing, when the
\* response has no messages (an absent or an empty list), and the content of
\* the last message otherwise.
C7_FallbackOrLast ==
  [][\A r \in Requests :
       (pc[r] = "extract" /\ pc'[r] # "extract") =>
         LET ms == runOutput[r].messages
         IN /\ pc'[r] = "convert"
            /\ raised'[r] = "none"
            /\ IF ms.tag = "none" \/ ms.val = << >>
               THEN response'[r] = SomeText(Fallback)
               ELSE response'[r] = ms.val[Len(ms.val)].content]_vars

C7_Witness ==
  \E r \in Requests :
    /\ pc[r] = "convert"
    /\ response[r] = SomeText(Fallback)

KindRank(k) ==
  CASE k = "formatted" -> 1
    [] k = "raw" -> 2
    [] k = "apology" -> 3

\* C10: at most one reply is delivered per message; the attempts are made
\* in the order formatted, raw, apology, each later one only after the
\* previous attempt, the conversion or process_text raised.
C10_AtMostOneReply ==
  \A r \in Requests :
    LET a == attempts[r]
    IN /\ Len(Delivered(r)) <= 1
       /\ \A i \in 1..(Len(a) - 1) :
            /\ ~a[i].ok
            /\ KindRank(a[i].kind) < KindRank(a[i + 1].kind)
       /\ \A i \in 1..Len(a) :
            /\ a[i].kind = "formatted" => (i = 1 /\ Returned(r))
            /\ a[i].kind = "raw" =>
                 /\ Returned(r)
                 /\ \/ i = 1 /\ response[r].tag = "none"
                    \/ i = 2 /\ a[1].kind = "formatted"
            /\ a[i].kind = "apology" =>
                 \/ i = 1 /\ raised[r] # "none"
                 \/ i > 1 /\ a[i - 1].kind = "raw"

C10_Witness ==
  \E r \in Requests :
    /\ Len(attempts[r]) = 3
    /\ attempts[r][1].kind = "formatted"
    /\ attempts[r][2].kind = "raw"
    /\ attempts[r][3] = ApologyReply(TRUE)
    /\ pc[r] = "done"

(***************************************************************************)
(* Properties of the converter (specification SpecConv).                   *)
(***************************************************************************)
CountChar(s, c) == Cardinality({i \in 1..Len(s) : s[i] = c})

CountSub(s, d) == Cardinality({i \in 1..Len(s) : MatchAt(s, i, d)})

\* The texts a tag the converter inserts begins with, and ends with.
TagStarts ==
  {PreOpen, PreClose, CodeOpen, CodeClose, BOpen, BClose, IOpen, IClose, SOpen,
   SClose, AOpen, AClose}
TagEnds ==
  {PreOpen, PreClose, CodeOpen, CodeClose, BOpen, BClose, IOpen, IClose, SOpen,
   SClose, AMid, AClose}
Entities == {EntAmp, EntLt, EntGt, EntQuot, EntApos}

\* C8: every "<" of the output begins, and every ">" ends, a tag the
\* converter inserted, and each "<", ">" and "&" of the input is in the
\* output as its entity: every "&" of the output begins an entity, and there
\* are as many &lt; &gt; &amp; as the input has "<", ">", "&".
C8_OnlyInsertedTags ==
  convDone =>
    /\ \A i \in 1..Len(convOut) :
         /\ convOut[i] = "<" => \E t \in TagStarts : MatchAt(convOut, i, t)
         /\ convOut[i] = ">" => \E t \in TagEnds : MatchAt(convOut, i - Len(t) + 1, t)
         /\ convOut[i] = "&" => \E e \in Entities : MatchAt(convOut, i, e)
    /\ CountSub(convOut, EntLt) = CountChar(convIn, "<")
    /\ CountSub(convOut, EntGt) = CountChar(convIn, ">")
    /\ CountSub(convOut, EntAmp) = CountChar(convIn, "&")

\* "**<**" becomes "<b>&lt;</b>"
C8_Witness ==
  /\ convDone
  /\ convIn = <<"*", "*", "<", "*", "*">>
  /\ convOut = <<"<", "b", ">", "&", "l", "t", ";", "<", "/", "b", ">">>

EscapeThree(c) ==
  CASE c = "&" -> EntAmp
    [] c = "<" -> EntLt
    [] c = ">" -> EntGt
    [] OTHER -> <<c>>

EscapeFive(c) ==
  CASE c = "&" -> EntAmp
    [] c = "<" -> EntLt
    [] c = ">" -> EntGt
    [] c = DQ -> EntQuot
    [] c = SQ -> EntApos
    [] OTHER -> <<c>>

\* C9 as stated: the first step replaces "<", ">" and "&" by their entities
\* and leaves every other character of the input unchanged.
C9_EscapesThree ==
  convDone => convEsc = Flatten([i \in 1..Len(convIn) |-> EscapeThree(convIn[i])])

\* C9 amended: the first step replaces "<", ">", "&" and the two quote
\* characters by their entities and leaves every other character unchanged.
C9_EscapesFive ==
  convDone => convEsc = Flatten([i \in 1..Len(convIn) |-> EscapeFive(convIn[i])])

C9_Witness ==
  /\ convDone
  /\ convIn = <<"[", DQ, "]", "(", "<", ")">>
  /\ convEsc = <<"[", "&", "q", "u", "o", "t", ";", "]", "(", "&", "l", "t", ";", ")">>

====
